---------------------------- MODULE Spec2Model ----------------------------
(***************************************************************************)
(* A model of the rajant_api package: the packet framer (pack_data /       *)
(* unpack_data, in rajant_api/__init__.py and in helper_functions.py) and  *)
(* the Breadcrumb session (authenticate, get_state, get_state_filter).     *)
(*                                                                         *)
(* Bytes are the integers 0..255 and a byte string is a sequence of them.  *)
(* A Python call that may raise is modelled by a result record             *)
(* [exc, val]: exc = "none" and val the value returned, or exc the name of *)
(* the exception raised.                                                   *)
(***************************************************************************)
EXTENDS Integers, Sequences, FiniteSets, TLC

\* ------------------------------------------------------------------ bounds
\* Longest payload handed to the framers in SpecFramer.
MaxLen == 2
\* Sockets one Breadcrumb may create (authenticate calls that reach socket()).
MaxConn == 2
\* Cap on seq_number: a call starts only while it cannot exceed it.
MaxSeq == 6

\* ------------------------------------------------------------- exceptions
Ok(v) == [exc |-> "none", val |-> v]
Raise(e) == [exc |-> e, val |-> <<>>]
IsOk(r) == r.exc = "none"

\* F(e), with e evaluated once
With(e, F(_)) == CHOOSE y \in { F(v) : v \in { e } } : TRUE

\* ------------------------------------------------------------ byte strings
Byte == 0..255

RECURSIVE SumBytes(_)
SumBytes(s) == IF s = <<>> THEN 0 ELSE Head(s) + SumBytes(Tail(s))

\* Python slices: s[:n] and s[n:]
Take(s, n) == SubSeq(s, 1, IF n < Len(s) THEN n ELSE Len(s))
Drop(s, n) == IF n >= Len(s) THEN <<>> ELSE SubSeq(s, n + 1, Len(s))

\* the 32-bit big-endian and 16-bit little-endian encodings of n
BE32(n) == << (n \div 16777216) % 256, (n \div 65536) % 256, (n \div 256) % 256, n % 256 >>
LE16(n) == << n % 256, (n \div 256) % 256 >>

\* a byte read as struct's signed 'b'
SignedByte(b) == IF b >= 128 THEN b - 256 ELSE b

\* four bytes read as struct's signed big-endian 'i'
SignedBE32(s) == SignedByte(s[1]) * 16777216 + s[2] * 65536 + s[3] * 256 + s[4]

\* struct.pack('>ibbbb', n, f, 0, 0, 0): 'i' holds -2^31 .. 2^31 - 1
struct_pack(n, f) ==
    IF n > 2147483647 THEN Raise("struct.error")
    ELSE Ok(BE32(n) \o << f, 0, 0, 0 >>)

\* a variant of the function below that reads any buffer as an empty header
struct_unpack_lenient(b) == Ok(<< 0, 0, 0, 0, 0 >>)

\* struct.unpack('>ibbbb', b): b must be exactly 8 bytes long
struct_unpack(b) ==
    IF Len(b) # 8 THEN Raise("struct.error")
    ELSE Ok(<< SignedBE32(b), SignedByte(b[5]), SignedByte(b[6]),
               SignedByte(b[7]), SignedByte(b[8]) >>)

\* ------------------------------------------------------------------- zlib
(* The deflate stream format, in its stored-block form (RFC 1951, 3.2.4):  *)
(* one final block, BTYPE 00, LEN and its one's complement NLEN, then the  *)
(* bytes. zlib's compressor also emits Huffman-coded blocks; the model's   *)
(* compressor emits stored blocks only, and the model's inflate reads      *)
(* stored blocks and refuses the other block types.                        *)
deflate_raw(data) ==
    << 1 >> \o LE16(Len(data)) \o LE16(65535 - Len(data)) \o data

InflateError == [exc |-> "zlib.error", val |-> <<>>, rest |-> <<>>]

\* inflate of a raw deflate stream s: [exc, val, rest], rest the bytes that
\* follow the final block
RECURSIVE inflate_raw(_)
inflate_raw(s) ==
    IF s = <<>> THEN InflateError
    ELSE LET bfinal == s[1] % 2
             btype  == (s[1] \div 2) % 4
         IN  IF btype # 0 \/ Len(s) < 5 THEN InflateError
             ELSE LET len  == s[2] + 256 * s[3]
                      nlen == s[4] + 256 * s[5]
                  IN  IF len + nlen # 65535 \/ Len(s) < 5 + len THEN InflateError
                      ELSE IF bfinal = 1
                        THEN [exc |-> "none", val |-> SubSeq(s, 6, 5 + len),
                              rest |-> Drop(s, 5 + len)]
                      ELSE With(inflate_raw(Drop(s, 5 + len)), LAMBDA more :
                             IF more.exc # "none" THEN more
                             ELSE [more EXCEPT !.val = SubSeq(s, 6, 5 + len) \o @])

\* the Adler-32 checksum of data, as its four big-endian bytes
RECURSIVE AdlerB(_, _)
AdlerB(data, a) ==
    IF data = <<>> THEN 0
    ELSE LET a1 == (a + Head(data)) % 65521
         IN  (a1 + AdlerB(Tail(data), a1)) % 65521
adler32(data) ==
    With((1 + SumBytes(data)) % 65521, LAMBDA a :
    With(AdlerB(data, 1), LAMBDA b :
      << b \div 256, b % 256, a \div 256, a % 256 >>))

\* the interpreters the package runs on: setup.py declares 3.6 to 3.8; from
\* 3.11 on zlib.compress takes wbits as a keyword
Pythons == { "3.8", "3.11" }
WbitsKeyword == { "3.11" }
\* for the calls that never reach a statement that depends on the interpreter
AnyPython == CHOOSE py \in Pythons : TRUE

\* zlib.compress(data, wbits=-15): a headerless deflate stream, or the
\* TypeError of an interpreter whose compress() has no wbits keyword
zlib_compress_raw(data, py) ==
    IF py \in WbitsKeyword THEN Ok(deflate_raw(data)) ELSE Raise("TypeError")

\* zlib.compress(data): the deflate stream in the zlib container (RFC 1950):
\* CMF, FLG, the stream, Adler-32 of the data
zlib_compress(data) == Ok(<< 120, 1 >> \o deflate_raw(data) \o adler32(data))

\* zlib.decompress(data, -15): a headerless deflate stream; bytes after the
\* final block are ignored
zlib_decompress_raw(data) ==
    With(inflate_raw(data), LAMBDA r :
      IF r.exc = "none" THEN Ok(r.val) ELSE Raise("zlib.error"))

\* zlib.decompress(data): the zlib container
zlib_decompress(data) ==
    IF Len(data) < 2 THEN Raise("zlib.error")
    ELSE IF \/ (data[1] * 256 + data[2]) % 31 # 0
            \/ data[1] % 16 # 8
            \/ data[1] \div 16 > 7
            \/ (data[2] \div 32) % 2 = 1
      THEN Raise("zlib.error")
    ELSE With(inflate_raw(Drop(data, 2)), LAMBDA r :
           IF r.exc # "none" \/ Len(r.rest) < 4 THEN Raise("zlib.error")
           ELSE IF Take(r.rest, 4) # adler32(r.val) THEN Raise("zlib.error")
           ELSE Ok(r.val))

\* ----------------------------------------------------------------- framer
\* rajant_api/__init__.py: pack_data(data, gzip), run by interpreter py
pack_data(data, gzip, py) ==
    With(IF gzip THEN zlib_compress_raw(data, py) ELSE Ok(data), LAMBDA c :
      IF ~IsOk(c) THEN c
      ELSE With(struct_pack(Len(c.val), IF gzip THEN 2 ELSE 0), LAMBDA header :
             IF ~IsOk(header) THEN header ELSE Ok(header.val \o c.val)))

\* rajant_api/__init__.py: unpack_data(packet)
unpack_data(packet) ==
    With(struct_unpack(Take(packet, 8)), LAMBDA header :
      LET data == Drop(packet, 8)
      IN  IF ~IsOk(header) THEN header
          ELSE IF header.val[2] = 2 THEN zlib_decompress_raw(data)
          ELSE Ok(data))

\* an exception of the listed kind becomes ValueError (try ... except X:
\* raise ValueError)
AsValueError(r) == IF IsOk(r) THEN r ELSE Raise("ValueError")

\* helper_functions.py: pack_data(data, gzip); data is a bytes object here
hf_pack_data(data, gzip) ==
    With(IF gzip THEN AsValueError(zlib_compress(data)) ELSE Ok(data), LAMBDA c :
      IF ~IsOk(c) THEN c
      ELSE With(struct_pack(Len(c.val), IF gzip THEN 2 ELSE 0), LAMBDA header :
             IF ~IsOk(header) THEN header ELSE Ok(header.val \o c.val)))

\* helper_functions.py: unpack_data(packet); packet is a bytes object here
hf_unpack_data(packet) ==
    IF Len(packet) < 8 THEN Raise("ValueError")
    ELSE With(AsValueError(struct_unpack(Take(packet, 8))), LAMBDA header :
           LET data == Drop(packet, 8)
           IN  IF ~IsOk(header) THEN header
               ELSE IF header.val[2] = 2 THEN AsValueError(zlib_decompress(data))
               ELSE IF header.val[2] # 0 THEN Raise("ValueError")
               ELSE Ok(data))

\* --------------------------------------------------------- message schema
(* BCMessage, the protocol-buffers message of Message_pb2. A message is a  *)
(* record of its fields; an optional field is <<>> (unset) or <<v>>, the   *)
(* repeated field is the sequence of its elements, strings and bytes are   *)
(* byte strings. On the wire a field is a key (field number * 8 + wire     *)
(* type), then a varint or a length and that many bytes.                   *)
EmptyAuth ==
    [action |-> <<>>, role |-> <<>>, serial |-> <<>>,
     challengeOrResponse |-> <<>>, compressionMask |-> <<>>]
EmptyResult == [status |-> <<>>]
BCMessage ==
    [sequenceNumber |-> <<>>, auth |-> <<>>, authResult |-> <<>>,
     state |-> <<>>, stateFilterPath |-> <<>>]

\* reading a field: an unset field reads as its default
GetInt(opt) == IF opt = <<>> THEN 0 ELSE opt[1]
GetBytes(opt) == IF opt = <<>> THEN <<>> ELSE opt[1]
GetAuth(m) == IF m.auth = <<>> THEN EmptyAuth ELSE m.auth[1]
GetAuthResult(m) == IF m.authResult = <<>> THEN EmptyResult ELSE m.authResult[1]

RECURSIVE Varint(_)
Varint(n) == IF n < 128 THEN << n >> ELSE << 128 + (n % 128) >> \o Varint(n \div 128)

\* a varint read from the head of s: [ok, val, rest]
NoVarint == [ok |-> FALSE, val |-> 0, rest |-> <<>>]
RECURSIVE ReadVarint(_)
ReadVarint(s) ==
    IF s = <<>> THEN NoVarint
    ELSE IF Head(s) < 128 THEN [ok |-> TRUE, val |-> Head(s), rest |-> Tail(s)]
    ELSE With(ReadVarint(Tail(s)), LAMBDA r :
           IF ~r.ok \/ r.val >= 16777216 THEN NoVarint
           ELSE [ok |-> TRUE, val |-> (Head(s) - 128) + 128 * r.val, rest |-> r.rest])

VarintField(no, opt) ==
    IF opt = <<>> THEN <<>> ELSE << no * 8 >> \o Varint(opt[1])
BytesField(no, opt) ==
    IF opt = <<>> THEN <<>> ELSE << no * 8 + 2 >> \o Varint(Len(opt[1])) \o opt[1]
RECURSIVE RepeatedField(_, _)
RepeatedField(no, items) ==
    IF items = <<>> THEN <<>>
    ELSE BytesField(no, << Head(items) >>) \o RepeatedField(no, Tail(items))

SerializeAuth(a) ==
    VarintField(1, a.action) \o VarintField(2, a.role) \o BytesField(3, a.serial)
      \o BytesField(4, a.challengeOrResponse) \o VarintField(5, a.compressionMask)
SerializeResult(r) == VarintField(1, r.status)

\* message.SerializeToString()
SerializeToString(m) ==
    VarintField(1, m.sequenceNumber)
      \o (IF m.auth = <<>> THEN <<>> ELSE BytesField(2, << SerializeAuth(m.auth[1]) >>))
      \o (IF m.authResult = <<>> THEN <<>>
          ELSE BytesField(3, << SerializeResult(m.authResult[1]) >>))
      \o BytesField(4, m.state)
      \o RepeatedField(5, m.stateFilterPath)

\* the fields of a serialized message, in order: [ok, fields], a field is
\* [no, wt, int, bytes]
NoFields == [ok |-> FALSE, fields |-> <<>>]
Cons(f, more) == IF ~more.ok THEN more ELSE [ok |-> TRUE, fields |-> << f >> \o more.fields]
RECURSIVE ScanFields(_)
ScanFields(s) ==
    IF s = <<>> THEN [ok |-> TRUE, fields |-> <<>>]
    ELSE With(ReadVarint(s), LAMBDA key :
           LET no == key.val \div 8
               wt == key.val % 8
           IN  IF ~key.ok \/ no = 0 \/ wt \notin { 0, 2 } THEN NoFields
               ELSE With(ReadVarint(key.rest), LAMBDA v :
                      IF ~v.ok THEN NoFields
                      ELSE IF wt = 0
                        THEN Cons([no |-> no, wt |-> 0, int |-> v.val, bytes |-> <<>>],
                                  ScanFields(v.rest))
                      ELSE IF Len(v.rest) < v.val THEN NoFields
                      ELSE Cons([no |-> no, wt |-> 2, int |-> 0,
                                 bytes |-> Take(v.rest, v.val)],
                                ScanFields(Drop(v.rest, v.val)))))

\* the last field numbered no with wire type wt, as an optional value
RECURSIVE LastInt(_, _)
LastInt(fields, no) ==
    IF fields = <<>> THEN <<>>
    ELSE LET f == fields[Len(fields)]
         IN  IF f.no = no /\ f.wt = 0 THEN << f.int >>
             ELSE LastInt(SubSeq(fields, 1, Len(fields) - 1), no)
RECURSIVE LastBytes(_, _)
LastBytes(fields, no) ==
    IF fields = <<>> THEN <<>>
    ELSE LET f == fields[Len(fields)]
         IN  IF f.no = no /\ f.wt = 2 THEN << f.bytes >>
             ELSE LastBytes(SubSeq(fields, 1, Len(fields) - 1), no)
RECURSIVE AllBytes(_, _)
AllBytes(fields, no) ==
    IF fields = <<>> THEN <<>>
    ELSE (IF Head(fields).no = no /\ Head(fields).wt = 2
          THEN << Head(fields).bytes >> ELSE <<>>) \o AllBytes(Tail(fields), no)

\* a sub-message field: unset, or the parsed value of its bytes
ParseAuth(opt) ==
    IF opt = <<>> THEN Ok(<<>>)
    ELSE With(ScanFields(opt[1]), LAMBDA sc :
           IF ~sc.ok THEN Raise("DecodeError")
           ELSE Ok(<< [action |-> LastInt(sc.fields, 1), role |-> LastInt(sc.fields, 2),
                       serial |-> LastBytes(sc.fields, 3),
                       challengeOrResponse |-> LastBytes(sc.fields, 4),
                       compressionMask |-> LastInt(sc.fields, 5)] >>))
ParseResult(opt) ==
    IF opt = <<>> THEN Ok(<<>>)
    ELSE With(ScanFields(opt[1]), LAMBDA sc :
           IF ~sc.ok THEN Raise("DecodeError")
           ELSE Ok(<< [status |-> LastInt(sc.fields, 1)] >>))
ParseState(opt) ==
    IF opt = <<>> THEN Ok(<<>>)
    ELSE IF ~ScanFields(opt[1]).ok THEN Raise("DecodeError")
    ELSE Ok(opt)

\* message.ParseFromString(s) on a new message
ParseFromString(s) ==
    With(ScanFields(s), LAMBDA sc :
      IF ~sc.ok THEN Raise("DecodeError")
      ELSE With(ParseAuth(LastBytes(sc.fields, 2)), LAMBDA pa :
           With(ParseResult(LastBytes(sc.fields, 3)), LAMBDA pr :
           With(ParseState(LastBytes(sc.fields, 4)), LAMBDA ps :
             IF ~IsOk(pa) \/ ~IsOk(pr) \/ ~IsOk(ps) THEN Raise("DecodeError")
             ELSE Ok([sequenceNumber |-> LastInt(sc.fields, 1),
                      auth |-> pa.val, authResult |-> pr.val, state |-> ps.val,
                      stateFilterPath |-> AllBytes(sc.fields, 5)])))))

\* ----------------------------------------------------------- Python values
\* an optional value: None is <<>>, a value v is <<v>>
None == <<>>
\* what a call returns: False/True, or the state field of a message
PyBool(b) == [t |-> "bool", b |-> b, s |-> <<>>]
PyState(s) == [t |-> "State", b |-> FALSE, s |-> s]
\* how a call ended: not yet, a return, or an exception raised to the caller
NoRet == [kind |-> "none", exc |-> "none", val |-> PyBool(FALSE)]
Return(v) == [kind |-> "return", exc |-> "none", val |-> v]
Raised(e) == [kind |-> "raise", exc |-> e, val |-> PyBool(FALSE)]

\* the enumerations of Message_pb2, as the dictionaries __init__ builds
actions == ("LOGIN" :> 0) @@ ("LOGOUT" :> 1)
roles == ("CO" :> 0) @@ ("ADMIN" :> 1) @@ ("VIEW" :> 2)
statuses == (0 :> "SUCCESS") @@ (1 :> "FAILURE") @@ (2 :> "AUTH_FAILED")

\* hashlib.sha384(b).digest(), reduced to a one-byte digest
sha384(b) == << (31 * SumBytes(b) + 7 * Len(b) + 13) % 256 >>

\* str.encode('latin1'): one byte per character, characters up to 255 only
encode_latin1(str) ==
    IF \E i \in 1..Len(str) : str[i] > 255 THEN Raise("UnicodeEncodeError")
    ELSE Ok(str)
\* bytes.decode('latin1'): one character per byte
decode_latin1(b) == b

\* ---------------------------------------------------------- model inputs
\* constructor arguments: host None, a host that answers ping, a host name
\* ping cannot resolve; a role of the schema and one that is not; a password
Hosts == { None, << "10.0.0.1" >>, << "invalid_host" >> }
RoleNames == { "CO", "bogus" }
Passwords == { None, << << 112, 119 >> >> }
\* the filters argument of get_state_filter: one string, or a list of strings
FilterStr == { << 103 >> }
PyStr(x) == [t |-> "str", str |-> x, items |-> <<>>]
PyList(xs) == [t |-> "list", str |-> <<>>, items |-> xs]
FilterArgs ==
    { PyStr(x) : x \in FilterStr }
      \cup { PyList(<<>>), PyList(<< << 103 >> >>), PyList(<< << 103 >>, << 119 >> >>) }

\* what the peer may write: a challenge, a result, a state response, each
\* plain or deflate-compressed
Serials == { << 83 >> }
Challenges == { << 7 >> }
StatusCodes == { 0, 1, 9 }
StateBlobs == { << 8, 1 >> }
ChallengeMsg(serial, c) ==
    [BCMessage EXCEPT !.sequenceNumber = << 0 >>,
                      !.auth = << [EmptyAuth EXCEPT !.serial = << serial >>,
                                                    !.challengeOrResponse = << c >>] >>]
ResultMsg(code) == [BCMessage EXCEPT !.authResult = << [status |-> << code >>] >>]
StateMsg(blob) == [BCMessage EXCEPT !.state = << blob >>]
PeerMessages ==
    { ChallengeMsg(x, c) : x \in Serials, c \in Challenges }
      \cup { ResultMsg(k) : k \in StatusCodes }
      \cup { StateMsg(b) : b \in StateBlobs }
\* the peer's own framer: raw deflate when it compresses
Frame(m, gz) == pack_data(SerializeToString(m), gz, "3.11").val
PeerFrames ==
    { Frame(m, FALSE) : m \in PeerMessages }
      \cup { Frame(ChallengeMsg(x, c), TRUE) : x \in Serials, c \in Challenges }
      \cup { Frame(StateMsg(b), TRUE) : b \in StateBlobs }
\* where the network may cut a frame: inside the header, inside the payload
SplitAt == { 4, 10 }

\* ------------------------------------------------------------------ state
VARIABLES
    bc,     \* the Breadcrumb object: its attributes
    socks,  \* the sockets it created, by id: state, byte streams, what was sent
    call,   \* per caller: the call in progress or last finished
    fr      \* the function under test (SpecFramer, SpecDecode, SpecProbe);
            \* the peer's count of answered frames (SpecRace)

vars == << bc, socks, call, fr >>

\* the largest read of get_message: recv(65535)
RecvSize == 65535

NoFilters == PyList(<<>>)
IdleCall ==
    [op |-> "none", pc |-> "idle", filters |-> NoFilters, init_message |-> None,
     message |-> None, ret |-> NoRet, io |-> <<>>, bc0 |-> None,
     ping |-> "none", err |-> "none"]
NoFramer == [stage |-> "none"]

Callers == DOMAIN call
Conn == bc.connection
\* nobody is inside a call: calls are made one at a time
Quiet == \A u \in Callers : call[u].pc \in { "idle", "done" }

\* Breadcrumb.__init__
Breadcrumb(host, port, role, password) ==
    [host |-> host, port |-> port, role |-> role, password |-> password,
     connection |-> 0, serial |-> None, seq_number |-> 0, authenticated |-> FALSE]

Init ==
    /\ \E h \in Hosts, r \in RoleNames, pw \in Passwords :
         bc = Breadcrumb(h, 2300, r, pw)
    /\ socks = <<>>
    /\ call = [t \in { 1 } |-> IdleCall]
    /\ fr = NoFramer

\* an I/O event of a call
Ev(ev, data) == [ev |-> ev, data |-> data]

\* ---------------------------------------------------------------- helpers
\* the outcomes of the ping subprocess for a host
PingResults(host) ==
    IF host = << "10.0.0.1" >> THEN { "exit0", "nonzero", "oserror" }
    ELSE { "nonzero", "oserror" }

\* is_host_reachable(host) of rajant_api/__init__.py
is_host_reachable(host, ping) ==
    IF host = None THEN Raise("TypeError")
    ELSE IF ping = "exit0" THEN Ok(TRUE)
    ELSE IF ping = "nonzero" THEN Ok(FALSE)
    ELSE Raise("FileNotFoundError")

\* Breadcrumb.reachable
reachable(b, ping) == is_host_reachable(b.host, ping)

\* a variant of the function below: a message numbered 0 whatever the counter
build_message_unnumbered(b) == [BCMessage EXCEPT !.sequenceNumber = << 0 >>]

\* Breadcrumb.build_message
build_message(b) == [BCMessage EXCEPT !.sequenceNumber = << b.seq_number >>]

\* a variant of prepare_login_message that does not look up the role
prepare_login_message_anyrole(b, init_message) == Ok(build_message(b))

\* self.seq_number += 1, the last statement of get_message and send_message
count_unchanged(b) == b
count_message(b) == [b EXCEPT !.seq_number = @ + 1]

\* a variant of get_message that reads until the peer's frame is complete
get_message_whole_frame(b, sk, fail) ==
    LET c == b.connection
    IN  IF c = 0 \/ fail \/ sk[c].state # "connected" \/ sk[c].arrived = <<>>
          THEN [exc |-> "socket.error", message |-> BCMessage, bc |-> b,
                socks |-> sk, data |-> <<>>]
        ELSE LET data == sk[c].arrived \o sk[c].flight
                 sk1  == [sk EXCEPT ![c].arrived = <<>>, ![c].flight = <<>>]
             IN  With(unpack_data(data), LAMBDA u :
                 With(IF IsOk(u) THEN ParseFromString(u.val) ELSE u, LAMBDA m :
                   IF ~IsOk(m)
                     THEN [exc |-> m.exc, message |-> BCMessage, bc |-> b,
                           socks |-> sk1, data |-> data]
                   ELSE [exc |-> "none", message |-> m.val,
                         bc |-> [b EXCEPT !.seq_number = @ + 1],
                         socks |-> [sk1 EXCEPT ![c].rxn = @ + 1], data |-> data]))

\* Breadcrumb.get_message: one recv, unpack, parse, count.
\* [exc, message, bc, socks, data]; fail: the recv raises (timeout, reset)
NotReceived(b, sk, e) ==
    [exc |-> e, message |-> BCMessage, bc |-> b, socks |-> sk, data |-> <<>>]
get_message(b, sk, fail) ==
    LET c == b.connection
    IN  IF c = 0 THEN NotReceived(b, sk, "AttributeError")
        ELSE IF fail \/ sk[c].state # "connected" \/ sk[c].arrived = <<>>
          THEN NotReceived(b, sk, "socket.error")
        ELSE LET data == Take(sk[c].arrived, RecvSize)
                 sk1  == [sk EXCEPT ![c].arrived = Drop(@, RecvSize)]
             IN  With(unpack_data(data), LAMBDA u :
                 With(IF IsOk(u) THEN ParseFromString(u.val) ELSE u, LAMBDA m :
                   IF ~IsOk(m)
                     THEN [exc |-> m.exc, message |-> BCMessage, bc |-> b,
                           socks |-> sk1, data |-> data]
                   ELSE [exc |-> "none", message |-> m.val,
                         bc |-> count_message(b),
                         socks |-> [sk1 EXCEPT ![c].rxn = @ + 1], data |-> data]))

\* Breadcrumb.send_message(message): pack (gzip left False), send, count.
\* [exc, bc, socks, data]; fail: the send raises
NotSent(b, sk, e) == [exc |-> e, bc |-> b, socks |-> sk, data |-> <<>>]
send_message(b, sk, message, fail) ==
    LET c == b.connection
    IN  With(pack_data(SerializeToString(message), FALSE, AnyPython), LAMBDA tx_packet :
          IF ~IsOk(tx_packet) THEN NotSent(b, sk, tx_packet.exc)
          ELSE IF c = 0 THEN NotSent(b, sk, "AttributeError")
          ELSE IF fail \/ sk[c].state # "connected" THEN NotSent(b, sk, "socket.error")
          ELSE [exc |-> "none", bc |-> count_message(b),
                socks |-> [sk EXCEPT ![c].tx = Append(@, tx_packet.val)],
                data |-> tx_packet.val])

\* a new socket object
NewSocket(state) ==
    [state |-> state, arrived |-> <<>>, flight |-> <<>>, tx |-> <<>>, rxn |-> 0]

\* self.connection is rebound: the socket it named is no longer referenced,
\* and the bytes nobody can read from it any more are dropped from the state.
\* Nothing calls close(): the socket is closed if the interpreter finalizes
\* it at once (reference counting), and stays as it was if it does not
Unreferenced(sk, c, finalized) ==
    IF c = 0 THEN sk
    ELSE [sk EXCEPT ![c].arrived = <<>>, ![c].flight = <<>>,
                    ![c].state = IF finalized THEN "closed" ELSE @]

\* Breadcrumb.setup_connection_socket. how: "socket_error" (socket() or
\* wrap_socket raises), "connect_error" (connect raises), "connected"
setup_connection_socket(b, sk, how, finalized) ==
    IF how = "socket_error" THEN [exc |-> "socket.error", bc |-> b, socks |-> sk]
    ELSE LET id == Len(sk) + 1
             b1 == [b EXCEPT !.connection = id]
             old == Unreferenced(sk, b.connection, finalized)
         IN  IF how = "connect_error"
               THEN [exc |-> "socket.error", bc |-> b1,
                     socks |-> Append(old, NewSocket("wrapped"))]
             ELSE [exc |-> "none", bc |-> b1,
                   socks |-> Append(old, NewSocket("connected"))]

\* Breadcrumb.prepare_login_message(init_message): [exc, val]
prepare_login_message(b, init_message) ==
    IF "LOGIN" \notin DOMAIN actions THEN Raise("KeyError")
    ELSE IF b.role \notin DOMAIN roles THEN Raise("KeyError")
    ELSE IF b.password = None THEN Raise("TypeError")
    ELSE With(encode_latin1(
                b.password[1]
                  \o decode_latin1(GetBytes(GetAuth(init_message).challengeOrResponse))),
              LAMBDA response_string :
           IF ~IsOk(response_string) THEN response_string
           ELSE Ok([build_message(b) EXCEPT
                      !.auth = << [EmptyAuth EXCEPT
                                     !.action = << actions["LOGIN"] >>,
                                     !.role = << roles[b.role] >>,
                                     !.challengeOrResponse =
                                         << sha384(response_string.val) >>,
                                     !.compressionMask = << 2 >>] >>]))

\* ----------------------------------------------------------- authenticate
\* authenticate's handler: except: return self.authenticated
authenticate_except(b) == Return(PyBool(b.authenticated))

\* variants of the step below: one that never logs in, one that always does,
\* one that logs out on any status but SUCCESS
authenticate_result_strict(b, message) ==
    LET code == GetInt(GetAuthResult(message).status)
        ok == code \in DOMAIN statuses /\ statuses[code] = "SUCCESS"
    IN  [bc |-> [b EXCEPT !.authenticated = ok], ret |-> Return(PyBool(ok)),
         err |-> "none"]
authenticate_result_never(b, message) ==
    [bc |-> b, ret |-> Return(PyBool(b.authenticated)), err |-> "none"]
authenticate_result_always(b, message) ==
    [bc |-> [b EXCEPT !.authenticated = TRUE], ret |-> Return(PyBool(TRUE)),
     err |-> "none"]

\* authenticate after the result message is decoded: the status lookup and
\* the test for SUCCESS. [bc, ret, err]
authenticate_result(b, message) ==
    LET code == GetInt(GetAuthResult(message).status)
    IN  IF code \notin DOMAIN statuses
          THEN [bc |-> b, ret |-> authenticate_except(b), err |-> "KeyError"]
        ELSE IF statuses[code] = "SUCCESS"
          THEN [bc |-> [b EXCEPT !.authenticated = TRUE], ret |-> Return(PyBool(TRUE)),
                err |-> "none"]
        ELSE [bc |-> b, ret |-> Return(PyBool(b.authenticated)), err |-> "none"]

\* a call that begins: its record; a call that returns or raises (its locals
\* are gone); a call that goes on to its next statement
\* (ping: what the probe's subprocess did; err: the exception the call met)
NewCall(op, filters, ping) ==
    [IdleCall EXCEPT !.op = op, !.filters = filters, !.bc0 = << bc >>,
                     !.ping = ping, !.io = << Ev("probe", <<>>) >>]
Done(c, io, ret, err) ==
    [c EXCEPT !.pc = "done", !.io = io, !.ret = ret, !.err = err,
              !.init_message = None, !.message = None]
Goto(c, io, pc) == [c EXCEPT !.pc = pc, !.io = io]
Logged(c, ev, data) == Append(c.io, Ev(ev, data))

\* the call begins: reachable() is evaluated outside the try block
AuthBegin(t) ==
    /\ Quiet
    /\ Len(socks) < MaxConn
    /\ bc.seq_number + 3 <= MaxSeq
    /\ \E ping \in PingResults(bc.host) : \E r \in { reachable(bc, ping) } :
         \E c0 \in { NewCall("authenticate", NoFilters, ping) } :
           call' = [call EXCEPT ![t] =
               IF ~IsOk(r) THEN Done(c0, c0.io, Raised(r.exc), r.exc)
               ELSE IF r.val THEN Goto(c0, c0.io, "a_setup")
               ELSE Done(c0, c0.io, Return(PyBool(bc.authenticated)), "none")]
    /\ UNCHANGED << bc, socks, fr >>

AuthSetup(t) ==
    /\ call[t].pc = "a_setup"
    /\ \E how \in { "socket_error", "connect_error", "connected" }, finalized \in BOOLEAN :
         \E r \in { setup_connection_socket(bc, socks, how, finalized) } :
         \E io \in { IF how = "socket_error" THEN call[t].io
                     ELSE Logged(call[t], "connect", <<>>) } :
           /\ bc' = r.bc
           /\ socks' = r.socks
           /\ call' = [call EXCEPT ![t] =
                  IF r.exc # "none" THEN Done(@, io, authenticate_except(r.bc), r.exc)
                  ELSE Goto(@, io, "a_init")]
    /\ UNCHANGED fr

\* init_message = self.get_message(); self.serial = str(init_message.auth.serial)
AuthGetInit(t) ==
    /\ call[t].pc = "a_init"
    /\ \E fail \in BOOLEAN : \E r \in { get_message(bc, socks, fail) } :
         \E io \in { Logged(call[t], "recv", r.data) } :
           /\ socks' = r.socks
           /\ IF r.exc # "none"
                THEN /\ bc' = r.bc
                     /\ call' = [call EXCEPT ![t] = Done(@, io, authenticate_except(r.bc), r.exc)]
              ELSE /\ bc' = [r.bc EXCEPT
                               !.serial = << GetBytes(GetAuth(r.message).serial) >>]
                   /\ call' = [call EXCEPT ![t] =
                          [Goto(@, io, "a_login") EXCEPT !.init_message = << r.message >>]]
    /\ UNCHANGED fr

AuthPrepareLogin(t) ==
    /\ call[t].pc = "a_login"
    /\ \E r \in { prepare_login_message(bc, call[t].init_message[1]) } :
         call' = [call EXCEPT ![t] =
             IF ~IsOk(r) THEN Done(@, @.io, authenticate_except(bc), r.exc)
             ELSE [Goto(@, @.io, "a_send") EXCEPT !.message = << r.val >>]]
    /\ UNCHANGED << bc, socks, fr >>

AuthSendLogin(t) ==
    /\ call[t].pc = "a_send"
    /\ \E fail \in BOOLEAN : \E r \in { send_message(bc, socks, call[t].message[1], fail) } :
         \E io \in { Logged(call[t], "send", r.data) } :
           /\ bc' = r.bc
           /\ socks' = r.socks
           /\ call' = [call EXCEPT ![t] =
                  IF r.exc # "none" THEN Done(@, io, authenticate_except(r.bc), r.exc)
                  ELSE Goto(@, io, "a_result")]
    /\ UNCHANGED fr

AuthGetResult(t) ==
    /\ call[t].pc = "a_result"
    /\ \E fail \in BOOLEAN : \E r \in { get_message(bc, socks, fail) } :
         \E io \in { Logged(call[t], "recv", r.data) } :
           /\ socks' = r.socks
           /\ IF r.exc # "none"
                THEN /\ bc' = r.bc
                     /\ call' = [call EXCEPT ![t] = Done(@, io, authenticate_except(r.bc), r.exc)]
              ELSE \E a \in { authenticate_result(r.bc, r.message) } :
                     /\ bc' = a.bc
                     /\ call' = [call EXCEPT ![t] = Done(@, io, a.ret, a.err)]
    /\ UNCHANGED fr

\* ---------------------------------------------------------------- queries
\* the test that opens both queries: self.reachable() and self.authenticated
query_precondition(b, ping) ==
    With(reachable(b, ping), LAMBDA r :
      IF ~IsOk(r) THEN r ELSE Ok(r.val /\ b.authenticated))

\* variants of the handlers below: one that logs the session out, one that
\* returns False
except_logout(b, e) ==
    [bc |-> [b EXCEPT !.authenticated = FALSE], ret |-> Return(PyBool(FALSE))]
except_swallow(b, e) == [bc |-> b, ret |-> Return(PyBool(FALSE))]

\* get_state's handler: except: return False. [bc, ret]
get_state_except(b, e) == [bc |-> b, ret |-> Return(PyBool(FALSE))]

\* get_state_filter's handler: except Exception as e: raise e. [bc, ret]
get_state_filter_except(b, e) == [bc |-> b, ret |-> Raised(e)]

\* the handler of the query op
QueryExcept(op, b, e) ==
    IF op = "get_state" THEN get_state_except(b, e) ELSE get_state_filter_except(b, e)

\* request_state_message = self.build_message(); ...state.Clear()
state_request(b) == [build_message(b) EXCEPT !.state = << <<>> >>]

\* request_state_message.stateFilterPath.append(filters): the repeated
\* string field takes one string; any other value is a TypeError
append_filters(message, filters) ==
    IF filters.t # "str" THEN Raise("TypeError")
    ELSE Ok([message EXCEPT !.stateFilterPath = Append(@, filters.str)])

\* the first step of a query: the precondition
QueryBegin(t, op, filters, pc) ==
    /\ bc.seq_number + 2 <= MaxSeq
    /\ \E ping \in PingResults(bc.host) : \E r \in { query_precondition(bc, ping) } :
         \E c0 \in { NewCall(op, filters, ping) } :
           call' = [call EXCEPT ![t] =
               IF ~IsOk(r) THEN Done(c0, c0.io, Raised(r.exc), r.exc)
               ELSE IF r.val THEN Goto(c0, c0.io, pc)
               ELSE Done(c0, c0.io, Return(PyBool(FALSE)), "none")]
    /\ UNCHANGED << bc, socks, fr >>

\* self.send_message(request_state_message), inside the try block of op
QuerySend(t, op, pc) ==
    \E fail \in BOOLEAN : \E r \in { send_message(bc, socks, call[t].message[1], fail) } :
      \E io \in { Logged(call[t], "send", r.data) } :
        /\ socks' = r.socks
        /\ IF r.exc # "none"
             THEN \E x \in { QueryExcept(op, r.bc, r.exc) } :
                    /\ bc' = x.bc
                    /\ call' = [call EXCEPT ![t] = Done(@, io, x.ret, r.exc)]
           ELSE /\ bc' = r.bc
                /\ call' = [call EXCEPT ![t] = Goto(@, io, pc)]
        /\ UNCHANGED fr

\* response_message = self.get_message(); return response_message.state
QueryRecv(t, op) ==
    \E fail \in BOOLEAN : \E r \in { get_message(bc, socks, fail) } :
      \E io \in { Logged(call[t], "recv", r.data) } :
        /\ socks' = r.socks
        /\ IF r.exc # "none"
             THEN \E x \in { QueryExcept(op, r.bc, r.exc) } :
                    /\ bc' = x.bc
                    /\ call' = [call EXCEPT ![t] = Done(@, io, x.ret, r.exc)]
           ELSE /\ bc' = r.bc
                /\ call' = [call EXCEPT ![t] =
                       Done(@, io, Return(PyState(GetBytes(r.message.state))), "none")]
        /\ UNCHANGED fr

\* -------------------------------------------------------------- get_state
GetStateBegin(t) == Quiet /\ QueryBegin(t, "get_state", NoFilters, "g_build")

GetStateBuild(t) ==
    /\ call[t].pc = "g_build"
    /\ call' = [call EXCEPT ![t] =
           [Goto(@, @.io, "g_send") EXCEPT !.message = << state_request(bc) >>]]
    /\ UNCHANGED << bc, socks, fr >>

GetStateSend(t) == call[t].pc = "g_send" /\ QuerySend(t, "get_state", "g_recv")

GetStateRecv(t) == call[t].pc = "g_recv" /\ QueryRecv(t, "get_state")

\* ------------------------------------------------------- get_state_filter
FilterBegin(t) ==
    Quiet /\ \E filters \in FilterArgs : QueryBegin(t, "get_state_filter", filters, "f_build")

FilterBuild(t) ==
    /\ call[t].pc = "f_build"
    /\ \E m \in { append_filters(state_request(bc), call[t].filters) } :
         IF ~IsOk(m)
           THEN \E x \in { get_state_filter_except(bc, m.exc) } :
                  /\ bc' = x.bc
                  /\ call' = [call EXCEPT ![t] = Done(@, @.io, x.ret, m.exc)]
         ELSE /\ bc' = bc
              /\ call' = [call EXCEPT ![t] =
                     [Goto(@, @.io, "f_send") EXCEPT !.message = << m.val >>]]
    /\ UNCHANGED << socks, fr >>

FilterSend(t) == call[t].pc = "f_send" /\ QuerySend(t, "get_state_filter", "f_recv")

FilterRecv(t) == call[t].pc = "f_recv" /\ QueryRecv(t, "get_state_filter")

\* ------------------------------------------------------------------- peer
(* The peer writes a frame on the session's connection; the network brings  *)
(* the first k bytes now and the rest later. Only a recv observes the       *)
(* stream, so a write or an arrival is taken at the last moment before the  *)
(* recv that can first see it: while a caller stands at a receive.          *)
AtRecv == \E u \in Callers : call[u].pc \in { "a_init", "a_result", "g_recv", "f_recv" }

PeerSend ==
    /\ AtRecv
    /\ Conn # 0
    /\ socks[Conn].state = "connected"
    /\ socks[Conn].arrived = <<>>
    /\ socks[Conn].flight = <<>>
    /\ \E frame \in PeerFrames, k \in SplitAt \cup { RecvSize } :
         /\ k < Len(frame) \/ k = RecvSize
         /\ socks' = [socks EXCEPT ![Conn].arrived = Take(frame, k),
                                   ![Conn].flight = Drop(frame, k)]
    /\ UNCHANGED << bc, call, fr >>

Deliver ==
    /\ AtRecv
    /\ Conn # 0
    /\ socks[Conn].flight # <<>>
    /\ socks' = [socks EXCEPT ![Conn].arrived = @ \o socks[Conn].flight,
                              ![Conn].flight = <<>>]
    /\ UNCHANGED << bc, call, fr >>

Next ==
    \/ \E t \in Callers : AuthBegin(t)
    \/ \E t \in Callers : AuthSetup(t)
    \/ \E t \in Callers : AuthGetInit(t)
    \/ \E t \in Callers : AuthPrepareLogin(t)
    \/ \E t \in Callers : AuthSendLogin(t)
    \/ \E t \in Callers : AuthGetResult(t)
    \/ \E t \in Callers : GetStateBegin(t)
    \/ \E t \in Callers : GetStateBuild(t)
    \/ \E t \in Callers : GetStateSend(t)
    \/ \E t \in Callers : GetStateRecv(t)
    \/ \E t \in Callers : FilterBegin(t)
    \/ \E t \in Callers : FilterBuild(t)
    \/ \E t \in Callers : FilterSend(t)
    \/ \E t \in Callers : FilterRecv(t)
    \/ PeerSend
    \/ Deliver

Spec == Init /\ [][Next]_vars

\* ------------------------------------------------- the framers on their own
(* A payload is packed by one of the two framers and the packet is unpacked *)
(* by one of them; no session takes part.                                   *)
FramerBytes == { 0, 65, 255 }
RECURSIVE BytesUpTo(_)
BytesUpTo(n) ==
    IF n = 0 THEN { <<>> }
    ELSE BytesUpTo(n - 1)
           \cup { Append(p, x) : p \in { q \in BytesUpTo(n - 1) : Len(q) = n - 1 },
                                 x \in FramerBytes }
Framers == { "package", "helper" }

\* pack_data and unpack_data of the named module
PackBy(impl, data, gzip, py) ==
    IF impl = "package" THEN pack_data(data, gzip, py) ELSE hf_pack_data(data, gzip)
UnpackBy(impl, packet) ==
    IF impl = "package" THEN unpack_data(packet) ELSE hf_unpack_data(packet)

InitFramer ==
    /\ bc = Breadcrumb(None, 2300, "CO", None)
    /\ socks = <<>>
    /\ call = [t \in { 1 } |-> IdleCall]
    /\ \E p \in BytesUpTo(MaxLen), gzip \in BOOLEAN, impl \in Framers, py \in Pythons :
         fr = [stage |-> "input", packer |-> impl, python |-> py, gzip |-> gzip,
               p |-> p]

\* packet = pack_data(p, gzip)
FramerPack ==
    /\ fr.stage = "input"
    /\ fr' = [stage |-> "packed", packer |-> fr.packer, python |-> fr.python,
              gzip |-> fr.gzip, p |-> fr.p,
              packet |-> PackBy(fr.packer, fr.p, fr.gzip, fr.python)]
    /\ UNCHANGED << bc, socks, call >>

\* unpack_data(packet), by either module
FramerUnpack ==
    /\ fr.stage = "packed"
    /\ IsOk(fr.packet)
    /\ \E impl \in Framers :
         fr' = [stage |-> "unpacked", packer |-> fr.packer, python |-> fr.python,
                gzip |-> fr.gzip, p |-> fr.p, packet |-> fr.packet,
                unpacker |-> impl, out |-> UnpackBy(impl, fr.packet.val)]
    /\ UNCHANGED << bc, socks, call >>

NextFramer == FramerPack \/ FramerUnpack

SpecFramer == InitFramer /\ [][NextFramer]_vars

\* ---------------------------------------------- unpack_data on any input
(* Any byte string is handed to unpack_data: frames with every kind of      *)
(* compression byte, with a plain, a raw-deflate or a zlib payload, and the *)
(* inputs of fewer than 8 bytes that are their beginnings.                  *)
FlagBytes == { 0, 1, 2, 3, 130, 255 }
HeaderLen == 8
RawPayloads ==
    BytesUpTo(MaxLen) \cup { deflate_raw(<< 65 >>), zlib_compress(<< 65 >>).val }
RawFrames == { BE32(Len(p)) \o << f, 0, 0, 0 >> \o p : p \in RawPayloads, f \in FlagBytes }
RawInputs == RawFrames \cup { Take(x, n) : x \in RawFrames, n \in 0 .. HeaderLen - 1 }

InitDecode ==
    /\ bc = Breadcrumb(None, 2300, "CO", None)
    /\ socks = <<>>
    /\ call = [t \in { 1 } |-> IdleCall]
    /\ \E x \in RawInputs : fr = [stage |-> "raw", packet |-> x]

\* unpack_data(packet), by either module
Decode ==
    /\ fr.stage = "raw"
    /\ \E impl \in Framers :
         fr' = [stage |-> "decoded", packet |-> fr.packet, unpacker |-> impl,
                out |-> UnpackBy(impl, fr.packet)]
    /\ UNCHANGED << bc, socks, call >>

NextDecode == Decode

SpecDecode == InitDecode /\ [][NextDecode]_vars

\* ------------------------------------------- helper_functions: addresses
(* A str is a sequence of one-character strings. The argument of            *)
(* is_valid_ipv4 is any Python value: a str, an int, None.                  *)
Digits == << "0", "1", "2", "3", "4", "5", "6", "7", "8", "9" >>
DigitOf(ch) == (CHOOSE i \in 1 .. 10 : Digits[i] = ch) - 1
IsDigit(ch) == \E i \in 1 .. 10 : Digits[i] = ch
PyInt(n) == [t |-> "int", n |-> n]
PyNone == [t |-> "None"]

\* str(n) of a non-negative int, and int(s, 10) of a str of digits
RECURSIVE IntStr(_)
IntStr(n) == IF n < 10 THEN << Digits[n + 1] >> ELSE Append(IntStr(n \div 10), Digits[(n % 10) + 1])
RECURSIVE StrInt(_)
StrInt(str) ==
    IF str = <<>> THEN 0 ELSE 10 * StrInt(SubSeq(str, 1, Len(str) - 1)) + DigitOf(str[Len(str)])

\* str(address)
py_str(v) ==
    IF v.t = "str" THEN v.str
    ELSE IF v.t = "int" THEN IntStr(v.n)
    ELSE << "N", "o", "n", "e" >>

\* str.split('.')
RECURSIVE split_dot(_)
split_dot(str) ==
    IF \A i \in 1 .. Len(str) : str[i] # "." THEN << str >>
    ELSE LET k == CHOOSE i \in 1 .. Len(str) :
                    str[i] = "." /\ \A j \in 1 .. i - 1 : str[j] # "."
         IN  << SubSeq(str, 1, k - 1) >> \o split_dot(SubSeq(str, k + 1, Len(str)))

\* the interpreters whose ipaddress refuses an octet written with leading
\* zeros (3.8.12, 3.9.5 and later)
StrictOctets == { "3.11" }

\* ipaddress.IPv4Address._parse_octet: TRUE when the octet is accepted
parse_octet(octet_str, py) ==
    /\ octet_str # <<>>
    /\ \A i \in 1 .. Len(octet_str) : IsDigit(octet_str[i])
    /\ Len(octet_str) <= 3
    /\ ~(py \in StrictOctets /\ octet_str # << "0" >> /\ octet_str[1] = "0")
    /\ StrInt(octet_str) <= 255

\* ipaddress.IPv4Address(str): [exc, val]
IPv4Address(str, py) ==
    IF \E i \in 1 .. Len(str) : str[i] = "/" THEN Raise("AddressValueError")
    ELSE IF str = <<>> THEN Raise("AddressValueError")
    ELSE With(split_dot(str), LAMBDA octets :
           IF Len(octets) # 4 THEN Raise("AddressValueError")
           ELSE IF \E i \in 1 .. 4 : ~parse_octet(octets[i], py)
             THEN Raise("AddressValueError")
           ELSE Ok(octets))

\* a variant of the function below that accepts every value
is_valid_ipv4_always(address, py) == Ok(TRUE)

\* helper_functions.py: is_valid_ipv4(address): [exc, val]
is_valid_ipv4(address, py) == Ok(IsOk(IPv4Address(py_str(address), py)))

\* helper_functions.py: is_host_reachable(host): [exc, val]
hf_is_host_reachable(host, ping, py) ==
    With(is_valid_ipv4(host, py), LAMBDA valid :
      IF ~IsOk(valid) THEN valid
      ELSE IF ~valid.val THEN Raise("ValueError")
      ELSE IF ping = "exit0" THEN Ok(TRUE)
      ELSE IF ping = "nonzero" THEN Ok(FALSE)
      ELSE Raise("FileNotFoundError"))

\* ------------------------------------------------- the probes on their own
(* An address is written as octets joined by dots; the octets are drawn     *)
(* from valid ones, ones out of range, ones with leading zeros, empty and   *)
(* non-numeric ones. Values that are no str are handed in as well.          *)
Chars(n) == IntStr(n)
OctetTokens ==
    { Chars(0), Chars(127), Chars(255), Chars(256), << "0", "1" >>, <<>>,
      << "a" >>, Chars(1000) }
RECURSIVE JoinDots(_)
JoinDots(parts) ==
    IF Len(parts) = 1 THEN parts[1]
    ELSE parts[1] \o << "." >> \o JoinDots(Tail(parts))
AddressParts ==
    UNION { [1 .. n -> OctetTokens] : n \in { 1, 3, 4 } }
      \cup [1 .. 5 -> { Chars(0), Chars(255) }]
      \cup { << Chars(1), << "1", "/", "8" >>, Chars(1), Chars(1) >> }
OtherValues == { PyInt(12345), PyNone }

InitProbe ==
    /\ bc = Breadcrumb(None, 2300, "CO", None)
    /\ socks = <<>>
    /\ call = [t \in { 1 } |-> IdleCall]
    /\ \E py \in Pythons :
         \/ \E parts \in AddressParts :
              fr = [stage |-> "value", python |-> py, parts |-> parts,
                    value |-> PyStr(JoinDots(parts))]
         \/ \E v \in OtherValues :
              fr = [stage |-> "value", python |-> py, parts |-> <<>>, value |-> v]

\* is_valid_ipv4(value)
ValidIPv4 ==
    /\ fr.stage = "value"
    /\ fr' = [stage |-> "validated", python |-> fr.python, parts |-> fr.parts,
              value |-> fr.value, out |-> is_valid_ipv4(fr.value, fr.python)]
    /\ UNCHANGED << bc, socks, call >>

\* what ping does with the host: only an address can answer
PingOf(v, py) ==
    IF is_valid_ipv4(v, py).val THEN { "exit0", "nonzero", "oserror" }
    ELSE { "nonzero", "oserror" }

\* is_host_reachable(value), of the package or of helper_functions; the
\* value is a str or None
ProbeHost ==
    /\ fr.stage = "value"
    /\ fr.value.t # "int"
    /\ \E impl \in Framers, ping \in PingOf(fr.value, fr.python) :
         fr' = [stage |-> "probed", python |-> fr.python, parts |-> fr.parts,
                value |-> fr.value, impl |-> impl, ping |-> ping,
                out |-> IF impl = "package"
                          THEN is_host_reachable(
                                 IF fr.value.t = "None" THEN None ELSE << fr.value >>, ping)
                        ELSE hf_is_host_reachable(fr.value, ping, fr.python)]
    /\ UNCHANGED << bc, socks, call >>

NextProbe == ValidIPv4 \/ ProbeHost

SpecProbe == InitProbe /\ [][NextProbe]_vars

\* ------------------------------------------------------------------ races
(* Two threads call the queries of one authenticated session. Breadcrumb    *)
(* holds no lock (__init__ creates none, no method takes one), so a thread  *)
(* may begin a query while the other is inside one, and the statements of   *)
(* the two calls interleave. The session starts as a handshake leaves it:   *)
(* connected, authenticated, three messages counted, the login on the wire. *)
(* The peer answers the frames it received in order, one answer per frame:  *)
(* the whole state for a request without a filter path, a part of it for a  *)
(* request with one.                                                        *)
Threads == { 1, 2 }
WholeState == << 8, 1 >>
PartState == << 8, 2 >>
RaceLogin(serial, c) ==
    prepare_login_message(
        [Breadcrumb(<< "10.0.0.1" >>, 2300, "CO", << << 112, 119 >> >>)
            EXCEPT !.connection = 1, !.serial = << serial >>, !.seq_number = 1],
        ChallengeMsg(serial, c)).val
InitRace ==
    /\ \E serial \in Serials, c \in Challenges :
         /\ bc = [Breadcrumb(<< "10.0.0.1" >>, 2300, "CO", << << 112, 119 >> >>)
                    EXCEPT !.connection = 1, !.serial = << serial >>,
                           !.seq_number = 3, !.authenticated = TRUE]
         /\ socks = << [NewSocket("connected") EXCEPT
                          !.tx = << Frame(RaceLogin(serial, c), FALSE) >>,
                          !.rxn = 2] >>
    /\ call = [t \in Threads |-> IdleCall]
    /\ fr = [stage |-> "peer", replied |-> 1]

\* a thread that is not inside a call makes one
Outside(t) == call[t].pc \in { "idle", "done" }
RaceGetState(t) == Outside(t) /\ QueryBegin(t, "get_state", NoFilters, "g_build")
RaceFilter(t) ==
    Outside(t) /\ \E filters \in FilterArgs :
                    QueryBegin(t, "get_state_filter", filters, "f_build")

\* the peer's answer to a request frame
ReplyTo(request) ==
    Frame(StateMsg(IF ParseFromString(unpack_data(request).val).val.stateFilterPath = <<>>
                     THEN WholeState ELSE PartState), FALSE)
PeerReply ==
    /\ fr.replied < Len(socks[Conn].tx)
    /\ socks' = [socks EXCEPT
                   ![Conn].arrived = @ \o ReplyTo(socks[Conn].tx[fr.replied + 1])]
    /\ fr' = [fr EXCEPT !.replied = @ + 1]
    /\ UNCHANGED << bc, call >>

NextRace ==
    \/ \E t \in Callers : RaceGetState(t)
    \/ \E t \in Callers : GetStateBuild(t)
    \/ \E t \in Callers : GetStateSend(t)
    \/ \E t \in Callers : GetStateRecv(t)
    \/ \E t \in Callers : RaceFilter(t)
    \/ \E t \in Callers : FilterBuild(t)
    \/ \E t \in Callers : FilterSend(t)
    \/ \E t \in Callers : FilterRecv(t)
    \/ PeerReply

SpecRace == InitRace /\ [][NextRace]_vars


\* ============================================================== properties
\* what the formulas below read off a call record
Finished(t, op) == call[t].pc = "done" /\ call[t].op = op
Before(t) == call[t].bc0[1]
Fresh(b) == b = Breadcrumb(b.host, b.port, b.role, b.password)
Queries == { "get_state", "get_state_filter" }
SuccessCodes == { k \in DOMAIN statuses : statuses[k] = "SUCCESS" }
ChallengeFrames(serial) ==
    { Frame(ChallengeMsg(serial, c), gz) : c \in Challenges, gz \in BOOLEAN }
\* the I/O of a whole handshake: connect, the challenge with this serial read
\* in one piece, the login sent, the result with status code k read
Handshake(io, serial, k) ==
    /\ Len(io) = 5
    /\ io[2].ev = "connect"
    /\ io[3].ev = "recv" /\ io[3].data \in ChallengeFrames(serial)
    /\ io[4].ev = "send" /\ io[4].data # <<>>
    /\ io[5] = Ev("recv", Frame(ResultMsg(k), FALSE))

\* C1: on a fresh session with a reachable host, a handshake in which the
\* peer sends a challenge, gets the login and answers SUCCESS makes
\* authenticate return True, sets authenticated, and leaves in serial the
\* serial of the challenge.
C1_HandshakeSucceeds ==
    \A t \in Callers, x \in Serials :
      ( /\ Finished(t, "authenticate")
        /\ Fresh(Before(t))
        /\ call[t].ping = "exit0"
        /\ \E k \in SuccessCodes : Handshake(call[t].io, x, k) )
      => /\ call[t].ret = Return(PyBool(TRUE))
         /\ bc.authenticated
         /\ bc.serial = << x >>

C1_Witness ==
    \E t \in Callers :
      /\ Finished(t, "authenticate")
      /\ Fresh(Before(t))
      /\ Handshake(call[t].io, << 83 >>, 0)
      /\ call[t].ret = Return(PyBool(TRUE))

\* C2: on a session that is not authenticated, a handshake whose result
\* carries any status other than SUCCESS, a code outside the status table
\* included, returns False without raising and leaves authenticated false.
C2_HandshakeFails ==
    \A t \in Callers, x \in Serials :
      ( /\ Finished(t, "authenticate")
        /\ ~Before(t).authenticated
        /\ \E k \in StatusCodes \ SuccessCodes : Handshake(call[t].io, x, k) )
      => /\ call[t].ret = Return(PyBool(FALSE))
         /\ ~bc.authenticated

C2_Witness ==
    \E t \in Callers :
      /\ Finished(t, "authenticate")
      /\ ~Before(t).authenticated
      /\ 9 \notin DOMAIN statuses
      /\ Handshake(call[t].io, << 83 >>, 9)
      /\ call[t].err = "KeyError"

\* C3: authenticate never raises: whatever fails, the reachability probe
\* included, a finished call has returned the value of the authenticated flag.
C3_AuthenticateNeverRaises ==
    \A t \in Callers :
      Finished(t, "authenticate") => call[t].ret = Return(PyBool(bc.authenticated))

\* C4: once authenticated is true it stays true in every later state.
C4_AuthenticatedNeverReverts == [][bc.authenticated => bc'.authenticated]_vars

C4_Witness ==
    \E t \in Callers :
      /\ Finished(t, "authenticate")
      /\ Before(t).authenticated
      /\ \E k \in StatusCodes \ SuccessCodes : Handshake(call[t].io, << 83 >>, k)
      /\ bc.authenticated

\* the messages sent and the messages received on the sockets of the session
RECURSIVE Traffic(_)
Traffic(sk) ==
    IF sk = <<>> THEN 0 ELSE Len(Head(sk).tx) + Head(sk).rxn + Traffic(Tail(sk))

\* C5: the sequence counter is the number of messages sent plus the number
\* of messages received since construction: 0 at first, one more for each,
\* never reset, a repeated authenticate included.
C5_CounterCountsMessages == bc.seq_number = Traffic(socks)

C5_Witness ==
    \E t \in Callers :
      /\ Finished(t, "authenticate")
      /\ Before(t).seq_number > 0
      /\ bc.seq_number > Before(t).seq_number
      /\ Len(socks) > 1

\* C6: a query on a session that is not authenticated, or whose host the
\* probe finds unreachable, returns False at once: no send, no receive, the
\* attributes of the session unchanged.
C6_QueryReturnsUnavailable ==
    \A t \in Callers :
      ( /\ call[t].pc = "done"
        /\ call[t].op \in Queries
        /\ ~Before(t).authenticated \/ call[t].ping = "nonzero" )
      => /\ call[t].ret = Return(PyBool(FALSE))
         /\ Len(call[t].io) = 1
         /\ bc = Before(t)

\* C7: on an authenticated session with a reachable host, an exception met
\* while get_state sends, receives or decodes ends in a return of False, and
\* authenticated is still true.
C7_GetStateSwallows ==
    \A t \in Callers :
      ( /\ Finished(t, "get_state")
        /\ Before(t).authenticated
        /\ call[t].ping = "exit0"
        /\ call[t].err # "none" )
      => /\ call[t].ret = Return(PyBool(FALSE))
         /\ bc.authenticated

C7_Witness ==
    \E t \in Callers :
      /\ Finished(t, "get_state")
      /\ Before(t).authenticated
      /\ call[t].err \notin { "none", "socket.error" }
      /\ Len(call[t].io) = 3
      /\ call[t].ret = Return(PyBool(FALSE))

\* C8: on an authenticated session with a reachable host, a failure of the
\* send, the receive or the decoding in get_state_filter reaches the caller
\* as the exception it was; the call does not return False.
C8_FilterPropagates ==
    \A t \in Callers :
      ( /\ Finished(t, "get_state_filter")
        /\ Before(t).authenticated
        /\ call[t].ping = "exit0"
        /\ Len(call[t].io) > 1
        /\ call[t].err # "none" )
      => call[t].ret = Raised(call[t].err)

C8_Witness ==
    \E t \in Callers :
      /\ Finished(t, "get_state_filter")
      /\ Before(t).authenticated
      /\ call[t].err \notin { "none", "socket.error" }
      /\ Len(call[t].io) = 3
      /\ call[t].ret.kind = "raise"

\* the stateFilterPath of every request a call sent
PathOf(data) == ParseFromString(unpack_data(data).val).val.stateFilterPath
SentPaths(io) ==
    LET sends == SelectSeq(io, LAMBDA e : e.ev = "send")
    IN  [i \in 1 .. Len(sends) |-> PathOf(sends[i].data)]

\* C9: get_state_filter(filters), filters a list of any length, sends one
\* request whose stateFilterPath holds the entries of filters in order, and
\* returns the state of the response it decodes.
C9_FilterPathHoldsEntries ==
    \A t \in Callers :
      ( /\ Finished(t, "get_state_filter")
        /\ Before(t).authenticated
        /\ call[t].ping = "exit0"
        /\ call[t].filters.t = "list"
        /\ \A i \in 1 .. Len(call[t].io) :
             call[t].io[i].ev = "send" => call[t].io[i].data # <<>> )
      => /\ SentPaths(call[t].io) = << call[t].filters.items >>
         /\ call[t].err = "none" => call[t].ret.val.t = "State"

\* C10: unpack_data(pack_data(p, gzip)) = p for every p and both values of
\* gzip, for the framer of the package and for the one of helper_functions.
C10_RoundTrip ==
    /\ fr.stage = "packed" => IsOk(fr.packet)
    /\ (fr.stage = "unpacked" /\ fr.unpacker = fr.packer) => fr.out = Ok(fr.p)

\* C11: unpack_data fails, and returns no payload, on every frame whose
\* compression byte (the 5th byte) is neither 0 nor 2, in helper_functions
\* and in the package.
C11_UnknownFlagRejected ==
    ( /\ fr.stage = "decoded"
      /\ Len(fr.packet) >= HeaderLen
      /\ fr.packet[5] \notin { 0, 2 } )
    => ~IsOk(fr.out)

\* C12: unpack_data fails, and returns no payload, on every input shorter
\* than 8 bytes, the empty input included, in both modules.
C12_ShortFrameRejected ==
    (fr.stage = "decoded" /\ Len(fr.packet) < HeaderLen) => ~IsOk(fr.out)

C12_Witness ==
    /\ fr.stage = "decoded"
    /\ fr.unpacker = "package"
    /\ Len(fr.packet) = 5
    /\ fr.packet[5] = 2
    /\ fr.out = Raise("struct.error")

\* C13: pack_data(p, gzip) returns 8 header bytes and the payload: the
\* big-endian length of the payload that follows, the compression byte (0,
\* and then the payload is p; 2 with gzip), three zero bytes.
C13_HeaderCorrect ==
    fr.stage = "packed" =>
      /\ IsOk(fr.packet)
      /\ Len(fr.packet.val) >= HeaderLen
      /\ Take(fr.packet.val, 4) = BE32(Len(fr.packet.val) - HeaderLen)
      /\ SubSeq(fr.packet.val, 5, 8) = << IF fr.gzip THEN 2 ELSE 0, 0, 0, 0 >>
      /\ ~fr.gzip => Drop(fr.packet.val, HeaderLen) = fr.p

\* the address was written as four octets, each the decimal numeral (no
\* leading zeros) of a number in 0..255
CanonicalOctets == { Chars(0), Chars(127), Chars(255) }
WrittenAsQuad ==
    /\ fr.value.t = "str"
    /\ Len(fr.parts) = 4
    /\ \A i \in 1 .. 4 : fr.parts[i] \in CanonicalOctets
\* the address is not address-shaped for any reader: not four parts, or a
\* part that is empty, not a number, or a number above 255
NotAnAddress ==
    \/ fr.value.t # "str"
    \/ Len(fr.parts) # 4
    \/ \E i \in 1 .. Len(fr.parts) :
         fr.parts[i] \in { <<>>, << "a" >>, << "1", "/", "8" >>, Chars(256), Chars(1000) }

\* C14: is_host_reachable raises ValueError for every host that is not a
\* dotted-quad IPv4 address; for an address it returns True when the ping
\* succeeds and False when the ping reports failure; in the package and in
\* helper_functions.
C14_ProbeValidatesHost ==
    fr.stage = "probed" =>
      /\ NotAnAddress => fr.out = Raise("ValueError")
      /\ (WrittenAsQuad /\ fr.ping = "exit0") => fr.out = Ok(TRUE)
      /\ (WrittenAsQuad /\ fr.ping = "nonzero") => fr.out = Ok(FALSE)

\* C17: is_valid_ipv4 returns a boolean and never raises: True for four
\* decimal octets in 0..255, False when an octet is above 255, for the empty
\* string, and for a value that is no address (the integer 12345).
C17_ValidIPv4Decides ==
    fr.stage = "validated" =>
      /\ fr.out \in { Ok(TRUE), Ok(FALSE) }
      /\ WrittenAsQuad => fr.out = Ok(TRUE)
      /\ NotAnAddress => fr.out = Ok(FALSE)

C17_Witness ==
    /\ fr.stage = "validated"
    /\ fr.parts = << Chars(256), Chars(0), Chars(0), Chars(127) >>
    /\ fr.out = Ok(FALSE)

\* the sockets of the session that hold an open connection
LiveConnections == { i \in DOMAIN socks : socks[i].state = "connected" }

\* C15: the session never has more than one open connection: a repeated
\* authenticate opens a new one and the old one is no longer live.
C15_OneLiveConnection == Cardinality(LiveConnections) <= 1

\* C16: connection is None until an authenticate call has connected the
\* socket: what connection names is a connected socket, and after a call
\* stopped by the probe or by a failed connect it is still None.
C16_ConnectionNoneUntilConnected ==
    bc.connection # 0 => socks[bc.connection].state = "connected"

\* the message in a frame, as get_message decodes it
Decoded(data) == ParseFromString(unpack_data(data).val).val
\* the kinds of the I/O events of a call, in order
Kinds(io) == [i \in 1 .. Len(io) |-> io[i].ev]
HandshakeOrder == << "probe", "connect", "recv", "send", "recv" >>

\* C18: the I/O of an authenticate call is a beginning of: probe, connect,
\* receive, send, receive, each at most once; a send is attempted only after
\* a frame has been read; and authenticated has become true in the call only
\* when all five happened and the result read by the last receive carries
\* SUCCESS.
C18_HandshakeOrder ==
    \A t \in Callers :
      call[t].op = "authenticate" =>
        /\ Len(call[t].io) <= 5
        /\ Kinds(call[t].io) = SubSeq(HandshakeOrder, 1, Len(call[t].io))
        /\ Len(call[t].io) >= 4 => call[t].io[3].data # <<>>
        /\ (bc.authenticated /\ ~Before(t).authenticated) =>
             /\ Len(call[t].io) = 5
             /\ call[t].pc = "done"
             /\ GetInt(GetAuthResult(Decoded(call[t].io[5].data)).status) \in SuccessCodes

C18_Witness ==
    \E t \in Callers :
      /\ call[t].op = "authenticate"
      /\ Len(call[t].io) = 5
      /\ bc.authenticated
      /\ ~Before(t).authenticated

\* C19: the login message sent in a handshake carries the counter as it was
\* when the message was built (one above the value before the challenge was
\* received), action LOGIN, the code of the configured role, the SHA-384
\* digest of the password followed by the challenge of the first message
\* received, and compressionMask 2.
C19_LoginMessage ==
    \A t \in Callers :
      ( /\ call[t].op = "authenticate"
        /\ Len(call[t].io) >= 4
        /\ call[t].io[4].data # <<>> )
      => \E m \in { Decoded(call[t].io[4].data) } :
           /\ m.sequenceNumber = << Before(t).seq_number + 1 >>
           /\ GetAuth(m).action = << actions["LOGIN"] >>
           /\ GetAuth(m).role = << roles[bc.role] >>
           /\ GetAuth(m).challengeOrResponse =
                << sha384(bc.password[1]
                            \o GetBytes(GetAuth(Decoded(call[t].io[3].data)).challengeOrResponse)) >>
           /\ GetAuth(m).compressionMask = << 2 >>

C19_Witness ==
    \E t \in Callers :
      /\ call[t].op = "authenticate"
      /\ Len(call[t].io) >= 4
      /\ call[t].io[4].data # <<>>
      /\ \E x \in Serials : call[t].io[3].data \in ChallengeFrames(x)
      /\ Before(t).seq_number > 0

\* C20: with a role name the schema does not know, a handshake that has
\* received the challenge stops there: no login is sent, authenticated stays
\* false, the counter is one above its value before the call, and the call
\* returns False without raising.
C20_UnknownRoleStops ==
    \A t \in Callers :
      ( /\ call[t].op = "authenticate"
        /\ bc.role \notin DOMAIN roles
        /\ Len(call[t].io) >= 3
        /\ \E x \in Serials : call[t].io[3].data \in ChallengeFrames(x) )
      => /\ Len(call[t].io) = 3
         /\ call[t].pc \in { "a_login", "done" }
         /\ ~bc.authenticated
         /\ bc.seq_number = Before(t).seq_number + 1
         /\ call[t].pc = "done" => call[t].ret = Return(PyBool(FALSE))

C20_Witness ==
    \E t \in Callers :
      /\ Finished(t, "authenticate")
      /\ bc.role \notin DOMAIN roles
      /\ Len(call[t].io) = 3
      /\ call[t].err = "KeyError"
      /\ bc.seq_number = Before(t).seq_number + 1

\* the numbers of the requests on the wire after the login, in sending order
RequestNumbers ==
    [i \in 1 .. Len(socks[Conn].tx) - 1 |->
        GetInt(Decoded(socks[Conn].tx[i + 1]).sequenceNumber)]

\* C21: with two threads in the queries of one session, a request is numbered
\* with the shared counter as it stands when the request is built, which
\* leaves the counter as it was, and a receive returns the state of whatever
\* frame is first in the stream; the interleaving in which two requests went
\* out with one number and a thread was handed the answer to the other
\* thread's request is the witness.
C21_SharedCounterAndStream ==
    [][\A t \in Callers :
         /\ ( /\ call[t].pc \in { "g_build", "f_build" }
              /\ call'[t].pc \in { "g_send", "f_send" } )
            => /\ call'[t].message[1].sequenceNumber = << bc.seq_number >>
               /\ bc' = bc
         /\ ( /\ call[t].pc \in { "g_recv", "f_recv" }
              /\ call'[t].ret.kind = "return"
              /\ call'[t].ret.val.t = "State" )
            => call'[t].ret.val.s =
                 GetBytes(Decoded(Take(socks[Conn].arrived, RecvSize)).state)]_vars

C21_Witness ==
    /\ \E i, j \in DOMAIN RequestNumbers : i < j /\ RequestNumbers[i] = RequestNumbers[j]
    /\ \E t, u \in Callers :
         /\ t # u
         /\ Finished(t, "get_state_filter")
         /\ Len(call[t].io) = 3
         /\ call[t].io[2].data # <<>>
         /\ Decoded(call[t].io[2].data).stateFilterPath # <<>>
         /\ call[t].ret = Return(PyState(WholeState))
         /\ call[u].op = "get_state"

\* where a call stands when its next statement is get_message
RecvPcs == { "a_init", "a_result", "g_recv", "f_recv" }
\* the frame in these bytes decodes to a message
Decodes(data) ==
    IsOk(unpack_data(data)) /\ IsOk(ParseFromString(unpack_data(data).val))

\* C22: a receive is one read of at most 65535 bytes of what has arrived: the
\* bytes read leave the stream, what the peer's frame still has in flight
\* stays there, and the bytes read are decoded as a whole frame: the message
\* is counted when they decode, the call ends with the error when they do not.
C22_OneReadPerMessage ==
    [][\A t \in Callers :
         (call[t].pc \in RecvPcs /\ call'[t] # call[t]) =>
           \E e \in { call'[t].io[Len(call'[t].io)] } :
             /\ Len(call'[t].io) = Len(call[t].io) + 1
             /\ e.ev = "recv"
             /\ Len(e.data) <= RecvSize
             /\ bc'.connection = bc.connection
             /\ IF e.data = <<>>
                  THEN socks' = socks /\ call'[t].pc = "done" /\ bc' = bc
                ELSE /\ e.data = Take(socks[Conn].arrived, RecvSize)
                     /\ socks'[Conn].arrived = Drop(socks[Conn].arrived, RecvSize)
                     /\ socks'[Conn].flight = socks[Conn].flight
                     /\ IF Decodes(e.data)
                          THEN /\ bc'.seq_number = bc.seq_number + 1
                               /\ call'[t].err \in { "none", "KeyError" }
                        ELSE /\ bc' = bc
                             /\ call'[t].pc = "done"
                             /\ call'[t].err \in { "struct.error", "zlib.error", "DecodeError" }]_vars

\* a frame of the peer came in two chunks: the first receive of a handshake
\* read the first chunk alone, and the next receive read the rest
C22_Witness ==
    \E t \in Callers, frame \in PeerFrames, k \in SplitAt :
      /\ k < Len(frame)
      /\ call[t].op = "authenticate"
      /\ Len(call[t].io) = 5
      /\ call[t].io[3] = Ev("recv", Take(frame, k))
      /\ call[t].io[5] = Ev("recv", Drop(frame, k))

\* C23: a frame packed by one module is unpacked to the original payload by
\* the other module, for every payload, compressed or not.
C23_FramersInterchangeable ==
    (fr.stage = "unpacked" /\ fr.unpacker # fr.packer) => fr.out = Ok(fr.p)

\* C24: with one caller at a time, an authenticated session has a serial, a
\* connection and at least three messages counted; a session with a serial
\* has a connection and at least one message counted.
C24_SessionFieldsAgree ==
    /\ bc.authenticated =>
         bc.serial # None /\ bc.connection # 0 /\ bc.seq_number >= 3
    /\ bc.serial # None => bc.connection # 0 /\ bc.seq_number >= 1

\* the serial was recorded and the handshake failed afterwards
C24_Witness ==
    \E t \in Callers :
      /\ Finished(t, "authenticate")
      /\ Len(call[t].io) >= 3
      /\ bc.serial # None
      /\ Before(t).serial = None
      /\ ~bc.authenticated
      /\ bc.seq_number = 1

\* the frames the session sent, in sending order: the sockets in the order
\* they were created, on each the frames in the order they were written
RECURSIVE SentFrames(_)
SentFrames(sk) ==
    IF sk = <<>> THEN <<>>
    ELSE SentFrames(SubSeq(sk, 1, Len(sk) - 1)) \o sk[Len(sk)].tx
SentNumbers ==
    [i \in 1 .. Len(SentFrames(socks)) |->
        GetInt(Decoded(SentFrames(socks)[i]).sequenceNumber)]

\* C25: with one caller at a time, every message the session has sent
\* carries a sequenceNumber greater than that of every message sent before.
C25_SentNumbersIncrease ==
    \A i, j \in DOMAIN SentNumbers : i < j => SentNumbers[i] < SentNumbers[j]

\* a login, a request and, after a second handshake on a new socket, another
\* login have been sent
C25_Witness ==
    /\ Len(SentNumbers) >= 3
    /\ Len(socks) >= 2
    /\ socks[1].tx # <<>>
    /\ socks[Len(socks)].tx # <<>>

\* a query call wrote its request; a query call returned a state
RequestSent(c) == Len(c.io) >= 2 /\ c.io[2].ev = "send" /\ c.io[2].data # <<>>
StateReturned(c) == c.ret.kind = "return" /\ c.ret.val.t = "State"

\* C26: a finished query has changed nothing of the session but the counter:
\* by 2 when it returned a state, by 1 when it failed after its request was
\* sent, by 0 when it failed before or at the send.
C26_FailedQueryKeepsSession ==
    \A t \in Callers :
      (call[t].pc = "done" /\ call[t].op \in Queries) =>
        /\ [bc EXCEPT !.seq_number = Before(t).seq_number] = Before(t)
        /\ bc.seq_number - Before(t).seq_number =
             IF StateReturned(call[t]) THEN 2
             ELSE IF RequestSent(call[t]) THEN 1
             ELSE 0

\* a query failed at the receive after its request was sent
C26_Witness ==
    \E t \in Callers :
      /\ call[t].pc = "done"
      /\ call[t].op \in Queries
      /\ RequestSent(call[t])
      /\ ~StateReturned(call[t])
      /\ Len(call[t].io) = 3
      /\ bc.seq_number = Before(t).seq_number + 1

=============================================================================
